---- MODULE Spec2Model ----
(***************************************************************************)
(* voice-guided-os: the action loop of DesktopController (src/main.py),    *)
(* the planner and grid-selection client (src/modules/llm_client.py), the  *)
(* cell geometry (src/modules/grid_processor.py) and the executor          *)
(* (src/modules/action_executor.py).                                       *)
(*                                                                         *)
(* Texts the code inspects character by character (the X and Y of a grid   *)
(* answer) are sequences of character codes; texts the code only compares  *)
(* or stores (action kinds, targets) are TLA+ strings.                     *)
(***************************************************************************)
EXTENDS Integers, Sequences, FiniteSets, TLC

(***************************************************************************)
(* Bounds of the model.                                                    *)
(***************************************************************************)
\* config.MAX_ITERATIONS (src/config.py:36) is 20; the loop is parametric in
\* it and the model runs it with a small cap.
MAX_ITERATIONS == 2
\* widths and heights of the screenshots SpecGeom resolves on: 1..MaxSide
MaxSide == 9

(***************************************************************************)
(* Program constants.                                                      *)
(***************************************************************************)
GRID_COLS == 3
GRID_ROWS == 3
max_retries == 3
\* the width and height used when pyautogui.size() cannot be read: 2**31 in
\* the code, here the largest integer the checker holds, one less; every
\* coordinate of the model is far below both
HeadlessSide == 2147483647

\* Python's None, for a text, for a tuple and for a dictionary
None == "None"
NoTuple == << >>
NoDict == [none |-> "None"]
\* a key a dictionary does not have: of a planning answer, of a grid answer
Absent == "<absent>"
AbsentTxt == <<0>>

(***************************************************************************)
(* Character-level helpers (Python str methods).                           *)
(***************************************************************************)
Txt1 == <<49>>
Txt2 == <<50>>
Txt3 == <<51>>
Txt5 == <<53>>
Txt0 == <<48>>
TxtSp2 == <<32, 50>>
TxtMinus1 == <<45, 49>>
TxtX == <<120>>
TxtEmpty == <<>>
TxtA == <<65>>
TxtB == <<66>>
TxtC == <<67>>
TxtD == <<68>>
TxtLowB == <<98>>
TxtAB == <<65, 66>>
TxtAC == <<65, 67>>
TxtABC == <<65, 66, 67>>

IsSpace(c) == c \in {32, 9, 10, 13}

RECURSIVE LStrip(_)
LStrip(s) == IF s = <<>> THEN s
             ELSE IF IsSpace(Head(s)) THEN LStrip(Tail(s)) ELSE s

RECURSIVE RStrip(_)
RStrip(s) == IF s = <<>> THEN s
             ELSE IF IsSpace(s[Len(s)]) THEN RStrip(SubSeq(s, 1, Len(s) - 1)) ELSE s

\* str.strip()
Strip(s) == RStrip(LStrip(s))

\* str.upper() on ASCII letters
Upper(s) == [i \in DOMAIN s |-> IF s[i] \in 97..122 THEN s[i] - 32 ELSE s[i]]

\* str.isdigit() on ASCII text
IsDigit(s) == s # <<>> /\ \A i \in DOMAIN s : s[i] \in 48..57

RECURSIVE DigitsValue(_)
DigitsValue(s) == IF s = <<>> THEN 0
                  ELSE 10 * DigitsValue(SubSeq(s, 1, Len(s) - 1)) + (s[Len(s)] - 48)

\* int(text): surrounding whitespace and one sign are accepted
IntParse(s) ==
    LET t == Strip(s)
        signed == t # <<>> /\ t[1] \in {43, 45}
        d == IF signed THEN Tail(t) ELSE t
    IN  IF IsDigit(d)
        THEN [ok |-> TRUE, val |-> IF signed /\ t[1] = 45 THEN 0 - DigitsValue(d) ELSE DigitsValue(d)]
        ELSE [ok |-> FALSE, val |-> 0]

\* `needle in hay` for Python strings: a contiguous substring (the empty text included)
IsSubstring(needle, hay) ==
    \E i \in 1..(Len(hay) + 1) :
        /\ i + Len(needle) - 1 <= Len(hay)
        /\ SubSeq(hay, i, i + Len(needle) - 1) = needle

(***************************************************************************)
(* Dictionaries (parsed JSON objects): functions from the keys present.    *)
(***************************************************************************)
Has(d, k) == k \in DOMAIN d
Get(d, k, default) == IF k \in DOMAIN d THEN d[k] ELSE default
Put(d, k, v) == [x \in (DOMAIN d) \cup {k} |-> IF x = k THEN v ELSE d[x]]
Pop(d, k) == [x \in (DOMAIN d) \ {k} |-> d[x]]
\* the dictionary holding the fields of r that are not absent
Present(r) == [k \in {x \in DOMAIN r : r[x] # Absent} |-> r[k]]
PresentTxt(r) == [k \in {x \in DOMAIN r : r[x] # AbsentTxt} |-> r[k]]

(***************************************************************************)
(* Cell geometry: src/modules/grid_processor.py                            *)
(***************************************************************************)
Min(a, b) == IF a < b THEN a ELSE b
Max(a, b) == IF a > b THEN a ELSE b

Ok(v) == [tag |-> "ok", val |-> v]
Raise(e) == [tag |-> e, val |-> NoTuple]

\* ord(text): a TypeError unless the text is one character
OrdOf(s) == IF Len(s) = 1 THEN Ok(s[1]) ELSE Raise("TypeError")

\* mutant: the products are rounded to the nearest integer, not truncated
CellRect_Rounded(col, row, width, height, grid_cols, grid_rows) ==
    << (2 * col * width + grid_cols) \div (2 * grid_cols),
       (2 * row * height + grid_rows) \div (2 * grid_rows),
       Min((2 * (col + 1) * width + grid_cols) \div (2 * grid_cols), width),
       Min((2 * (row + 1) * height + grid_rows) \div (2 * grid_rows), height) >>

\* mutant: the 1-based column and row numbers are used as indices, and the
\* far edges are not capped
CellRect_Shifted(col, row, width, height, grid_cols, grid_rows) ==
    << ((col + 1) * width) \div grid_cols,
       ((row + 1) * height) \div grid_rows,
       ((col + 2) * width) \div grid_cols,
       ((row + 2) * height) \div grid_rows >>

(***************************************************************************)
(* Python's float arithmetic (IEEE 754 binary64, round to nearest, ties to *)
(* even) for the one expression the grid code uses: int(k * (n / d)) with  *)
(* k >= 0, n >= 1, d >= 1.  n / d is rounded to 53 significant bits, the   *)
(* product of k and that quotient is rounded again, int() truncates.       *)
(***************************************************************************)
RECURSIVE FloorLog2Nat(_)
\* the largest e with 2^e <= q, for q >= 1
FloorLog2Nat(q) == IF q < 2 THEN 0 ELSE 1 + FloorLog2Nat(q \div 2)

RECURSIVE CeilLog2Ratio(_, _)
\* the smallest j with n * 2^j >= d
CeilLog2Ratio(n, d) == IF n >= d THEN 0 ELSE 1 + CeilLog2Ratio(2 * n, d)

\* the binary exponent of the quotient n / d: the largest e with 2^e <= n / d
FloatExponent(n, d) == IF n >= d THEN FloorLog2Nat(n \div d) ELSE 0 - CeilLog2Ratio(n, d)

RECURSIVE Pow2(_)
Pow2(e) == IF e = 0 THEN 1 ELSE 2 * Pow2(e - 1)

RECURSIVE Pow2Mod(_, _)
\* 2^p modulo m
Pow2Mod(p, m) ==
    IF p = 0 THEN 1 % m
    ELSE IF p % 2 = 0
    THEN LET h == Pow2Mod(p \div 2, m) IN (h * h) % m
    ELSE (2 * Pow2Mod(p - 1, m)) % m

\* the rounding error of the float quotient n / d, as a signed number of d-ths
\* of the last place of its significand: float(n / d) = n / d + s * ulp / d.
\* The significand is floor(n * 2^p / d) with p = 52 - exponent; the remainder r
\* of that division is dropped (s = -r) or rounded up (s = d - r).
FloatDivError(n, d) ==
    LET p == 52 - FloatExponent(n, d)
        r == ((n % d) * Pow2Mod(p, d)) % d
        odd == (((n % (2 * d)) * Pow2Mod(p, 2 * d)) % (2 * d)) \div d = 1
    IN  IF 2 * r < d THEN 0 - r
        ELSE IF 2 * r > d THEN d - r
        ELSE IF odd THEN d - r ELSE 0 - r

\* int(k * (n / d)).  When k * n / d is no integer the rounding errors are far
\* smaller than its distance to the integers around it.  When it is an integer
\* m, the float product is m or the float just below m: it is below when the
\* quotient was rounded down and k times its error is more than half the gap
\* between m and its predecessor (a gap of one ulp of m, half of it at a power
\* of two); a tie goes to m, whose significand is even.  With g, the difference
\* of the two exponents, above 20 the error is below that gap for every k the
\* model uses.
IntOfProduct(k, n, d) ==
    IF (k * n) % d # 0 \/ k * n = 0 THEN (k * n) \div d
    ELSE LET m == (k * n) \div d
             s == FloatDivError(n, d)
             g == FloorLog2Nat(m) - FloatExponent(n, d)
             halves == IF m = Pow2(FloorLog2Nat(m)) THEN 4 ELSE 2
         IN  IF s < 0 /\ g <= 20 /\ halves * k * (0 - s) > d * Pow2(g) THEN m - 1 ELSE m

\* x1, y1, x2, y2 of a cell whose column and row are in range:
\* cw, ch = width / grid_cols, height / grid_rows; x1 = int(col * cw), ...
CellRect(col, row, width, height, grid_cols, grid_rows) ==
    << IntOfProduct(col, width, grid_cols),
       IntOfProduct(row, height, grid_rows),
       Min(IntOfProduct(col + 1, width, grid_cols), width),
       Min(IntOfProduct(row + 1, height, grid_rows), height) >>

\* mutant: the upper end of the column range is not checked
OutOfRange_NoColumnCap(col, row, grid_cols, grid_rows) ==
    col < 0 \/ row < 0 \/ row >= grid_rows

OutOfRange(col, row, grid_cols, grid_rows) ==
    col < 0 \/ col >= grid_cols \/ row < 0 \/ row >= grid_rows

get_cell_bounds(grid_ref, image_size, grid_cols, grid_rows) ==
    LET width == image_size[1]
        height == image_size[2]
        x_val == Strip(Get(grid_ref, "X", Txt1))
        y_val == Upper(Strip(Get(grid_ref, "Y", TxtA)))
        xi == IntParse(x_val)
        yo == OrdOf(y_val)
        col == xi.val - 1
        row == yo.val - 65
    IN  IF grid_cols = 0 \/ grid_rows = 0 THEN Raise("ZeroDivisionError")
        ELSE IF ~xi.ok THEN Raise("ValueError")
        ELSE IF yo.tag # "ok" THEN Raise(yo.tag)
        ELSE IF OutOfRange(col, row, grid_cols, grid_rows) THEN Raise("ValueError")
        ELSE Ok(CellRect(col, row, width, height, grid_cols, grid_rows))

Abs(a) == IF a < 0 THEN 0 - a ELSE a

\* int(a / b) for b # 0: the quotient truncated towards zero
TruncDiv(a, b) ==
    IF (a >= 0) = (b > 0) THEN Abs(a) \div Abs(b) ELSE 0 - (Abs(a) \div Abs(b))

\* a / b rounded to the nearest integer as round() does, halves to the even
\* neighbour, for a >= 0 and b > 0
RoundDiv(a, b) ==
    LET q == a \div b
        r == a % b
    IN  IF 2 * r < b THEN q
        ELSE IF 2 * r > b THEN q + 1
        ELSE IF q % 2 = 0 THEN q ELSE q + 1

\* mutant: the quarter of the cell side is rounded, not truncated
PaddingOf_Rounded(side, n) ==
    IF n > 0 THEN RoundDiv(side, 4 * n) ELSE TruncDiv(side, 4 * n)

\* int((side / n) * 0.25): a quarter of the cell side, truncated
PaddingOf(side, n) == TruncDiv(side, 4 * n)

\* mutant: the lines divide the padded side, not the side of the original image
GridLines_OverPaddedSide(offset, side, n) ==
    [i \in 1..(n - 1) |-> offset + IntOfProduct(i, side + offset, n)]

\* the positions of the interior grid lines along one side: for i in
\* range(1, n), offset + int(i * (side / n))
GridLines(offset, side, n) ==
    [i \in 1..(n - 1) |-> offset + IntOfProduct(i, side, n)]

\* overlay_3x3_grid on an image of the given size, with config.GRID_COLS and
\* config.GRID_ROWS as given: the paddings, the size of the image returned and
\* the x of the interior vertical lines, the y of the interior horizontal ones
overlay_3x3_grid(image_size, cols, rows) ==
    LET orig_w == image_size[1]
        orig_h == image_size[2]
        left_padding == Max(50, PaddingOf(orig_w, cols))
        bottom_padding == Max(40, PaddingOf(orig_h, rows))
    IN  IF cols = 0 \/ rows = 0 THEN Raise("ZeroDivisionError")
        ELSE Ok([left_padding |-> left_padding, bottom_padding |-> bottom_padding,
                 size |-> << orig_w + left_padding, orig_h + bottom_padding >>,
                 vlines |-> GridLines(left_padding, orig_w, cols),
                 hlines |-> GridLines(0, orig_h, rows)])

\* draw_grid_with_labels of the stand-alone overlay script: the size of the
\* image returned
draw_grid_with_labels(image_size, rows, cols, pad_left, pad_bottom) ==
    IF rows <= 0 \/ cols <= 0 THEN Raise("ValueError")
    ELSE IF pad_left < 0 \/ pad_bottom < 0 THEN Raise("ValueError")
    ELSE Ok([left_padding |-> pad_left, bottom_padding |-> pad_bottom,
             size |-> << image_size[1] + pad_left, image_size[2] + pad_bottom >>])

\* mutant: the bottom-right corner is returned as the center
get_cell_center_BottomRight(cell_bounds) == << cell_bounds[3], cell_bounds[4] >>

\* mutant: the top-left corner is returned as the center
get_cell_center_TopLeft(cell_bounds) == << cell_bounds[1], cell_bounds[2] >>

get_cell_center(cell_bounds) ==
    << (cell_bounds[1] + cell_bounds[3]) \div 2, (cell_bounds[2] + cell_bounds[4]) \div 2 >>

\* the size of image.crop(cell_bounds)
crop_cell(cell_bounds) ==
    << cell_bounds[3] - cell_bounds[1], cell_bounds[4] - cell_bounds[2] >>

(***************************************************************************)
(* Executor: src/modules/action_executor.py                                *)
(***************************************************************************)
\* mutant: only negative coordinates are refused
OutsideScreen_NoUpperBound(x, y, width, height) == x < 0 \/ y < 0

\* the bounds check shared by click_at, right_click_at and double_click_at
OutsideScreen(x, y, width, height) == x < 0 \/ y < 0 \/ x >= width \/ y >= height

\* the pyautogui call each executor function makes
DeviceEvent(fn) ==
    CASE fn = "click_at" -> "click"
      [] fn = "right_click_at" -> "rightClick"
      [] fn = "double_click_at" -> "doubleClick"
      [] fn = "type_text" -> "write"
      [] OTHER -> "press"

\* mutant: the executor returns right after the device event
ExecutorEffects_NoSleep(fn) == << DeviceEvent(fn) >>

\* what an executor function does once its arguments are accepted: the
\* device event, then time.sleep(config.ACTION_DELAY_SECONDS)
ExecutorEffects(fn) == << DeviceEvent(fn), "sleep" >>

\* the record of one executor call: what it was given, how it ended ("ok" or
\* the exception) and what it did to the devices and the clock
ExecutorCall(fn, args, display, result) ==
    [fn |-> fn, args |-> args, display |-> display, result |-> result,
     effects |-> IF result = "ok" THEN ExecutorEffects(fn) ELSE << >>]

\* button.lower().strip() on the button names the planner is given here
LowerStrip(button) == IF button = " Enter" THEN "enter" ELSE button

valid_buttons ==
    {"enter", "return", "tab", "escape", "esc", "space", "backspace",
     "delete", "up", "down", "left", "right", "home", "end", "pageup",
     "pagedown", "f1", "f2", "f3", "f4", "f5", "f6", "f7", "f8", "f9",
     "f10", "f11", "f12", "ctrl", "alt", "shift", "cmd", "command",
     "win", "windows", "capslock", "numlock", "scrolllock"}

\* the validation of press_button: "ValueError" or the key that is pressed
press_button(button) ==
    IF button = "" THEN Raise("ValueError")
    ELSE IF LowerStrip(button) \notin valid_buttons THEN Raise("ValueError")
    ELSE Ok(IF LowerStrip(button) = "esc" THEN "escape" ELSE LowerStrip(button))

(***************************************************************************)
(* Planner client: src/modules/llm_client.py                               *)
(***************************************************************************)
\* an answer _parse_json_response finds no JSON object in: of the planner, of the grid oracle
Unparseable == [unparseable |-> "text"]
UnparseableGrid == [unparseable |-> << >>]

\* an answer json.loads reads as a number, not as an object
ScalarJson == [scalar |-> "3"]
ScalarJsonGrid == [scalar |-> <<51>>]

MouseKinds == {"MOUSE_LEFT_CLICK", "MOUSE_RIGHT_CLICK", "MOUSE_DOUBLE_CLICK"}

\* the kinds get_action_plan leaves as they are (llm_client.py line 231)
RecognizedKinds == {"COMPLETE", "ERROR", "MOUSE_LEFT_CLICK", "KEYBOARD_TYPE", "KEYBOARD_BUTTON_PRESS"}

\* get_action_plan, from the parsed response to the plan it returns
NormalisePlan(response_json) ==
    IF response_json = ScalarJson THEN Raise("TypeError")
    ELSE IF ~Has(response_json, "action") THEN Raise("ValueError")
    ELSE IF response_json["action"] \notin RecognizedKinds
    THEN Ok(Put(Put(response_json, "action", "MOUSE_LEFT_CLICK"), "target", response_json["action"]))
    ELSE IF response_json["action"] = "MOUSE_LEFT_CLICK" /\ ~Has(response_json, "target")
    THEN IF Has(response_json, "description")
         THEN Ok(Put(Pop(response_json, "description"), "target", response_json["description"]))
         ELSE Ok(Put(response_json, "target", "unknown target"))
    ELSE IF response_json["action"] = "KEYBOARD_TYPE" /\ ~Has(response_json, "text")
    THEN IF Has(response_json, "description")
         THEN Ok(Put(Pop(response_json, "description"), "text", response_json["description"]))
         ELSE IF Has(response_json, "target")
         THEN Ok(Put(Pop(response_json, "target"), "text", response_json["target"]))
         ELSE Raise("ValueError")
    ELSE IF response_json["action"] = "KEYBOARD_BUTTON_PRESS" /\ ~Has(response_json, "button")
    THEN IF Has(response_json, "description")
         THEN Ok(Put(Pop(response_json, "description"), "button", response_json["description"]))
         ELSE IF Has(response_json, "target")
         THEN Ok(Put(Pop(response_json, "target"), "button", response_json["target"]))
         ELSE Raise("ValueError")
    ELSE Ok(response_json)

\* select_grid_cell, from the parsed response to the selection it returns
ValidateGridCell(response_json) ==
    LET x_val == Strip(response_json["X"])
        y_val == Upper(Strip(response_json["Y"]))
    IN  IF response_json = ScalarJsonGrid THEN Raise("TypeError")
        ELSE IF ~Has(response_json, "X") \/ ~Has(response_json, "Y") THEN Raise("ValueError")
        ELSE IF ~IsDigit(x_val) \/ DigitsValue(x_val) < 1 \/ DigitsValue(x_val) > 3
        THEN Raise("ValueError")
        ELSE IF ~IsSubstring(y_val, TxtABC) THEN Raise("ValueError")
        ELSE Ok([X |-> x_val, Y |-> y_val])

\* _make_api_call: transport[i] says whether attempt i - 1 succeeds.  The
\* result: returned or raised, the attempts made, the seconds slept
RECURSIVE ApiAttempts(_, _, _)
ApiAttempts(transport, attempt, slept) ==
    IF attempt >= max_retries THEN [tag |-> "Exception", attempts |-> attempt, slept |-> slept]
    ELSE IF transport[attempt + 1] THEN [tag |-> "ok", attempts |-> attempt + 1, slept |-> slept]
    ELSE IF attempt = max_retries - 1
    THEN [tag |-> "Exception", attempts |-> attempt + 1, slept |-> slept]
    ELSE ApiAttempts(transport, attempt + 1, Append(slept, 2 ^ attempt))

\* mutant: one attempt, no retry
make_api_call_NoRetry(transport) ==
    [tag |-> IF transport[1] THEN "ok" ELSE "Exception", attempts |-> 1, slept |-> << >>]

make_api_call(transport) == ApiAttempts(transport, 0, << >>)

(***************************************************************************)
(* What the environment can answer.                                        *)
(***************************************************************************)
\* the planner's answers: text no JSON object is found in, a JSON number, or a JSON object.
\* Each kind comes with the fields the code reads for that kind, present,
\* empty or missing.
PlanResponses ==
    {Unparseable, ScalarJson}
    \cup { Present([target |-> t]) : t \in {Absent, "OK button"} }
    \cup { [action |-> "COMPLETE"], [action |-> "ERROR", reason |-> "no such window"] }
    \cup { Present([action |-> "KEYBOARD_TYPE", text |-> x]) : x \in {"", "hi"} }
    \cup { Present([action |-> "KEYBOARD_TYPE", description |-> d, target |-> t]) :
             d \in {Absent, "desc"}, t \in {Absent, "OK button"} }
    \cup { Present([action |-> "KEYBOARD_BUTTON_PRESS", button |-> b]) : b \in {"", " Enter", "bogus"} }
    \cup { Present([action |-> "KEYBOARD_BUTTON_PRESS", description |-> d, target |-> t]) :
             d \in {Absent, "tab"}, t \in {Absent, "OK button"} }
    \cup { Present([action |-> "MOUSE_LEFT_CLICK", target |-> t, description |-> d]) :
             t \in {Absent, "", "OK button"}, d \in {Absent, "desc"} }
    \cup { Present([action |-> a, target |-> t]) :
             a \in {"MOUSE_RIGHT_CLICK", "MOUSE_DOUBLE_CLICK", "click the OK button"},
             t \in {Absent, "OK button"} }

\* the outcomes of the transport attempts of one _make_api_call in the action loop
LoopTransports == { <<TRUE, TRUE, TRUE>>, <<FALSE, FALSE, TRUE>>, <<FALSE, FALSE, FALSE>> }

\* the grid answers of the action loop's runs: one cell, and the ways an
\* answer is not a cell
LoopGridResponses ==
    { UnparseableGrid, ScalarJsonGrid,
      [X |-> TxtSp2, Y |-> <<99>>],
      [X |-> Txt2],
      [X |-> Txt5, Y |-> TxtA],
      [X |-> TxtX, Y |-> TxtA],
      [X |-> Txt2, Y |-> TxtD],
      [X |-> Txt2, Y |-> TxtEmpty],
      [X |-> Txt2, Y |-> TxtAB] }

\* the grid answers of the resolver's runs on arbitrary screenshots
GeomGridResponses ==
    { PresentTxt([X |-> x, Y |-> y]) : x \in {Txt1, Txt2, Txt3, Txt0}, y \in {TxtA, TxtB, TxtC, TxtAC, TxtAB} }

\* the screenshots capture_full_screen returns in the action loop's runs
ScreenSizes == { <<1000, 800>> }

\* what pyautogui.size() answers
DisplaySizes == { <<1000, 800>>, <<500, 400>> }

(***************************************************************************)
(* State.                                                                  *)
(***************************************************************************)
VARIABLES
    pc,                    \* where the control thread is
    is_running,            \* DesktopController.is_running
    stop_flag,             \* DesktopController.stop_flag
    iteration_count,       \* run_action_loop's iteration_count
    conversation_history,  \* LLMClient.conversation_history: the roles of its entries
    action_history,        \* LLMClient.action_history
    screenshot,            \* the size of the iteration's screenshot
    response,              \* the planner's parsed answer, as received
    plan,                  \* action_response, as get_action_plan returned it
    action_description,    \* what the resolver is asked to locate
    sels,                  \* stage1_selection, stage2_selection, stage3_selection
    cell_bounds,           \* cell_bounds1, cell_bounds2, cell_bounds3
    click,                 \* click_x, click_y
    events,                \* what the current iteration has done so far
    stop_at_action,        \* a stop was pending when the iteration's executor call was made
    exit_reason,           \* why the loop of the current command ended
    max_iter_msg,          \* the "Reached maximum iterations" report was made
    call,                  \* a direct call of a function, with its result
    step_pdfs              \* the steps whose document ExecutionLogger has written

vars == <<pc, is_running, stop_flag, iteration_count, conversation_history,
          action_history, screenshot, response, plan, action_description,
          sels, cell_bounds, click, events, stop_at_action, exit_reason,
          max_iter_msg, call, step_pdfs>>

\* the locals of one iteration of run_action_loop
locals == <<screenshot, response, plan, action_description, sels, cell_bounds, click, stop_at_action>>
session == <<conversation_history, action_history>>
flags == <<is_running, stop_flag, iteration_count, max_iter_msg, call, step_pdfs>>

BodyPcs == {"capture", "plan", "strict", "dispatch", "type", "press",
            "stage1", "stage2", "stage3", "click", "post_capture"}

Init ==
    /\ pc = "idle"
    /\ is_running = FALSE
    /\ stop_flag = FALSE
    /\ iteration_count = 0
    /\ conversation_history = <<>>
    /\ action_history = <<>>
    /\ screenshot = NoTuple
    /\ response = NoDict
    /\ plan = NoDict
    /\ action_description = None
    /\ sels = <<>>
    /\ cell_bounds = <<>>
    /\ click = NoTuple
    /\ events = <<>>
    /\ stop_at_action = FALSE
    /\ exit_reason = "none"
    /\ max_iter_msg = FALSE
    /\ call = NoTuple
    /\ step_pdfs = {}

\* one more entry of the iteration's record: what was done and how it ended
Log(ev, out) == events' = Append(events, [ev |-> ev, out |-> out])

\* the locals of an iteration are dead once it ends: each is assigned again
\* before the next iteration reads it
ClearLocals ==
    /\ screenshot' = NoTuple
    /\ response' = NoDict
    /\ plan' = NoDict
    /\ action_description' = None
    /\ sels' = <<>>
    /\ cell_bounds' = <<>>
    /\ click' = NoTuple
    /\ stop_at_action' = FALSE

\* a `continue` of the while loop
Continue == pc' = "top" /\ exit_reason' = exit_reason /\ ClearLocals

\* a `break` of the while loop
Break(reason) == pc' = "after_loop" /\ exit_reason' = reason /\ ClearLocals

\* mutant: a ValueError ends the command like any other exception
ExceptValueError_Breaks == Break("abort")

\* mutant: after a ValueError the iteration is started again, uncounted
ExceptValueError_RetriesIteration ==
    pc' = "capture" /\ exit_reason' = exit_reason /\ ClearLocals

\* except ValueError: print, continue
ExceptValueError == Continue

\* except Exception: print, break
ExceptException == Break("abort")

\* how an exception raised in the iteration's body is handled
Except(e) == IF e = "ValueError" THEN ExceptValueError ELSE ExceptException

(***************************************************************************)
(* run(): the terminal loop, and the entry and exit of run_action_loop     *)
(***************************************************************************)
\* a command is read and, no command running, run_action_loop is entered
Submit ==
    /\ pc = "idle"
    /\ ~is_running
    /\ is_running' = TRUE
    /\ pc' = "enter"
    /\ UNCHANGED <<step_pdfs, stop_flag, iteration_count, max_iter_msg, call, session, locals, events, exit_reason>>

Enter ==
    /\ pc = "enter"
    /\ stop_flag' = FALSE
    /\ iteration_count' = 0
    /\ pc' = "setup"
    /\ events' = <<>>
    /\ exit_reason' = "none"
    /\ max_iter_msg' = FALSE
    /\ call' = NoTuple
    /\ UNCHANGED <<step_pdfs, is_running, session, locals>>

\* mutant: reset_conversation is not called
Setup_KeepsHistory ==
    /\ pc = "setup"
    /\ \/ /\ pc' = "top"
          /\ step_pdfs' = {}
          /\ UNCHANGED <<session, exit_reason>>
       \/ /\ pc' = "finally"
          /\ exit_reason' = "fatal"
          /\ UNCHANGED <<session, step_pdfs>>
    /\ UNCHANGED <<is_running, stop_flag, iteration_count, max_iter_msg, call, locals, events>>

\* create_execution_folder, save_command, reset_conversation
Setup ==
    /\ pc = "setup"
    /\ \/ /\ conversation_history' = <<>>
          /\ action_history' = <<>>
          /\ step_pdfs' = {}
          /\ pc' = "top"
          /\ UNCHANGED exit_reason
       \/ \* the folder or the command file cannot be written
          /\ pc' = "finally"
          /\ exit_reason' = "fatal"
          /\ UNCHANGED <<session, step_pdfs>>
    /\ UNCHANGED <<is_running, stop_flag, iteration_count, max_iter_msg, call, locals, events>>

\* mutant: the while condition lets one iteration too many through
LoopTop_OffByOne ==
    /\ pc = "top"
    /\ IF ~(iteration_count <= MAX_ITERATIONS)
       THEN /\ pc' = "after_loop"
            /\ exit_reason' = "exhausted"
            /\ UNCHANGED <<iteration_count, events, call>>
       ELSE IF stop_flag
       THEN /\ pc' = "after_loop"
            /\ exit_reason' = "stop"
            /\ UNCHANGED <<iteration_count, events, call>>
       ELSE /\ iteration_count' = iteration_count + 1
            /\ pc' = "capture"
            /\ events' = <<>>
            /\ call' = NoTuple
            /\ UNCHANGED exit_reason
    /\ UNCHANGED <<step_pdfs, is_running, stop_flag, max_iter_msg, session, locals>>

\* mutant: the stop flag is not read at the top of the iteration
LoopTop_IgnoresStop ==
    /\ pc = "top"
    /\ IF ~(iteration_count < MAX_ITERATIONS)
       THEN /\ pc' = "after_loop"
            /\ exit_reason' = "exhausted"
            /\ UNCHANGED <<iteration_count, events, call>>
       ELSE /\ iteration_count' = iteration_count + 1
            /\ pc' = "capture"
            /\ events' = <<>>
            /\ call' = NoTuple
            /\ UNCHANGED exit_reason
    /\ UNCHANGED <<step_pdfs, is_running, stop_flag, max_iter_msg, session, locals>>

\* the while condition, the stop check and the increment
LoopTop ==
    /\ pc = "top"
    /\ IF ~(iteration_count < MAX_ITERATIONS)
       THEN /\ pc' = "after_loop"
            /\ exit_reason' = "exhausted"
            /\ UNCHANGED <<iteration_count, events, call>>
       ELSE IF stop_flag
       THEN /\ pc' = "after_loop"
            /\ exit_reason' = "stop"
            /\ UNCHANGED <<iteration_count, events, call>>
       ELSE /\ iteration_count' = iteration_count + 1
            /\ pc' = "capture"
            /\ events' = <<>>
            /\ call' = NoTuple
            /\ UNCHANGED exit_reason
    /\ UNCHANGED <<step_pdfs, is_running, stop_flag, max_iter_msg, session, locals>>

\* if iteration_count >= config.MAX_ITERATIONS: print
AfterLoop ==
    /\ pc = "after_loop"
    /\ max_iter_msg' = (iteration_count >= MAX_ITERATIONS)
    /\ pc' = "finally"
    /\ UNCHANGED <<step_pdfs, is_running, stop_flag, iteration_count, call, session, locals, events, exit_reason>>

\* mutant: the finally clause does not reset the running state
Finally_LeavesRunning ==
    /\ pc = "finally"
    /\ pc' = "idle"
    /\ UNCHANGED <<flags, session, locals, events, exit_reason>>

\* finally: self.is_running = False
Finally ==
    /\ pc = "finally"
    /\ is_running' = FALSE
    /\ pc' = "idle"
    /\ UNCHANGED <<step_pdfs, stop_flag, iteration_count, max_iter_msg, call, session, locals, events, exit_reason>>

\* another thread sets the stop flag of a running controller
StopRequest ==
    /\ is_running
    /\ ~stop_flag
    /\ stop_flag' = TRUE
    /\ UNCHANGED <<step_pdfs, pc, is_running, iteration_count, max_iter_msg, call, session, locals, events, exit_reason>>

(***************************************************************************)
(* The body of one iteration: capture, plan, dispatch.                     *)
(***************************************************************************)
\* capture_full_screen and save_screenshot
Capture ==
    /\ pc = "capture"
    /\ \/ \E size \in ScreenSizes :
             /\ screenshot' = size
             /\ pc' = "plan"
             /\ Log("capture", "ok")
             /\ UNCHANGED <<exit_reason, response, plan, action_description, sels,
                            cell_bounds, click, stop_at_action>>
       \/ /\ Log("capture", "Exception")
          /\ ExceptException
    /\ UNCHANGED <<flags, session>>

\* get_action_plan: the first query, its parsing and its validation
PlanResponds ==
    /\ pc = "plan"
    /\ \E transport \in LoopTransports :
         IF make_api_call(transport).tag # "ok"
         THEN /\ Log("plan_query", "Exception")
              /\ ExceptException
              /\ UNCHANGED session
         ELSE \E r \in PlanResponses :
            IF r = Unparseable
            THEN \* "Failed to parse JSON": _retry_with_strict_json
                 /\ Log("plan_query", "parse_fail")
                 /\ pc' = "strict"
                 /\ UNCHANGED <<session, exit_reason, locals>>
            ELSE IF NormalisePlan(r).tag # "ok"
            THEN /\ Log("plan_query", NormalisePlan(r).tag)
                 /\ Except(NormalisePlan(r).tag)
                 /\ UNCHANGED session
            ELSE /\ conversation_history' = conversation_history \o <<"user", "assistant">>
                 /\ response' = r
                 /\ plan' = NormalisePlan(r).val
                 /\ pc' = "dispatch"
                 /\ Log("plan_query", "ok")
                 /\ UNCHANGED <<action_history, exit_reason, screenshot, action_description,
                                sels, cell_bounds, click, stop_at_action>>
    /\ UNCHANGED flags

\* mutant: the strict query is made again when its answer does not parse
StrictUnparseable_Requery == pc' = "strict" /\ UNCHANGED <<exit_reason, locals>>

\* what follows a strict answer no JSON object is found in: the ValueError
\* of _parse_json_response leaves get_action_plan
StrictUnparseable == ExceptValueError

\* _retry_with_strict_json: the strict query and its parsing
StrictResponds ==
    /\ pc = "strict"
    /\ \E transport \in LoopTransports :
         IF make_api_call(transport).tag # "ok"
         THEN /\ Log("strict_query", "Exception")
              /\ ExceptException
         ELSE \E r \in PlanResponses :
            IF r = Unparseable
            THEN /\ Log("strict_query", "ValueError")
                 /\ StrictUnparseable
            ELSE /\ response' = r
                 /\ plan' = r
                 /\ pc' = "dispatch"
                 /\ Log("strict_query", "ok")
                 /\ UNCHANGED <<exit_reason, screenshot, action_description,
                                sels, cell_bounds, click, stop_at_action>>
    /\ UNCHANGED <<flags, session>>

\* what the loop reads from action_response
PlanAction == Get(plan, "action", "")
PlanTarget == Get(plan, "target", "")
PlanText == Get(plan, "text", "")
PlanButton == Get(plan, "button", "")

\* mutant: COMPLETE goes on to the next iteration
OnComplete_Continues == Continue

\* ExecutionLogger.generate_step_pdf(step): the artifacts held in memory for
\* the step are written into its document
generate_step_pdf(step) == step_pdfs' = step_pdfs \cup {step}

\* action == "COMPLETE": break
OnComplete == Break("complete")

\* action == "ERROR": break
OnError == Break("error")

\* mutant: empty text is typed like any other text
OnEmptyText_Types == pc' = "type" /\ UNCHANGED <<exit_reason, locals>>

\* KEYBOARD_TYPE with no text: print, continue
OnEmptyText == Continue

\* mutant: a button name press_button refuses ends the command
OnInvalidButton_Aborts == Break("abort")

\* the except ValueError around press_button: print, continue
OnInvalidButton == Continue

\* mutant: an unknown action type ends the command
OnUnknown_Aborts == Break("abort")

\* the else branch of the dispatch: print, continue
OnUnknown == Continue

\* action_response.get on an answer of the strict query that is no dict
DispatchNotADict ==
    /\ pc = "dispatch"
    /\ plan = ScalarJson
    /\ Log("dispatch", "AttributeError")
    /\ ExceptException
    /\ UNCHANGED <<flags, session>>

DispatchComplete ==
    /\ pc = "dispatch"
    /\ PlanAction = "COMPLETE"
    /\ Log("dispatch", "COMPLETE")
    /\ generate_step_pdf(iteration_count)
    /\ OnComplete
    /\ UNCHANGED <<is_running, stop_flag, iteration_count, max_iter_msg, call, session>>

DispatchError ==
    /\ pc = "dispatch"
    /\ PlanAction = "ERROR"
    /\ Log("dispatch", "ERROR")
    /\ generate_step_pdf(iteration_count)
    /\ OnError
    /\ UNCHANGED <<is_running, stop_flag, iteration_count, max_iter_msg, call, session>>

DispatchKeyboardType ==
    /\ pc = "dispatch"
    /\ PlanAction = "KEYBOARD_TYPE"
    /\ IF PlanText = ""
       THEN /\ Log("dispatch", "skip_no_text")
            /\ OnEmptyText
       ELSE /\ Log("dispatch", "KEYBOARD_TYPE")
            /\ pc' = "type"
            /\ UNCHANGED <<exit_reason, locals>>
    /\ UNCHANGED <<flags, session>>

DispatchButtonPress ==
    /\ pc = "dispatch"
    /\ PlanAction = "KEYBOARD_BUTTON_PRESS"
    /\ IF PlanButton = ""
       THEN /\ Log("dispatch", "skip_no_button")
            /\ Continue
       ELSE /\ Log("dispatch", "KEYBOARD_BUTTON_PRESS")
            /\ pc' = "press"
            /\ UNCHANGED <<exit_reason, locals>>
    /\ UNCHANGED <<flags, session>>

\* mutant: the target is passed on even when there is none
ResolverDescription_AlwaysTarget(action, target) == target

\* action_description = target if target else action
ResolverDescription(action, target) == IF target # "" THEN target ELSE action

\* a click kind: perform_grid_selection is entered
DispatchMouse ==
    /\ pc = "dispatch"
    /\ PlanAction \in MouseKinds
    /\ action_description' = ResolverDescription(PlanAction, PlanTarget)
    /\ pc' = "stage1"
    /\ Log("dispatch", PlanAction)
    /\ UNCHANGED <<flags, session, exit_reason, screenshot, response, plan,
                   sels, cell_bounds, click, stop_at_action>>

DispatchUnknown ==
    /\ pc = "dispatch"
    /\ plan # ScalarJson
    /\ PlanAction \notin {"COMPLETE", "ERROR", "KEYBOARD_TYPE", "KEYBOARD_BUTTON_PRESS"} \cup MouseKinds
    /\ Log("dispatch", "unknown")
    /\ OnUnknown
    /\ UNCHANGED <<flags, session>>

\* mutant: the entry is put in front of the history
add_action_Prepends(action_type, target) ==
    action_history' = <<[action |-> action_type, target |-> target]>> \o action_history

\* LLMClient.add_action
add_action(action_type, target) ==
    action_history' = Append(action_history, [action |-> action_type, target |-> target])

\* the executor call returned: the action is entered in the history
Executed(ev, action_type, target) ==
    /\ Log(ev, "ok")
    /\ add_action(action_type, target)
    /\ stop_at_action' = stop_flag
    /\ pc' = "post_capture"
    /\ UNCHANGED <<exit_reason, screenshot, response, plan, action_description, sels,
                   cell_bounds, click>>

\* type_text(text), add_action
TypeText ==
    /\ pc = "type"
    /\ \/ /\ Executed("type_text", PlanAction, PlanText)
          /\ call' = ExecutorCall("type_text", <<PlanText>>, NoTuple, "ok")
       \/ \* the keyboard device fails
          /\ Log("type_text", "Exception")
          /\ call' = ExecutorCall("type_text", <<PlanText>>, NoTuple, "Exception")
          /\ ExceptException
          /\ UNCHANGED action_history
    /\ UNCHANGED <<step_pdfs, is_running, stop_flag, iteration_count, max_iter_msg, conversation_history>>

\* press_button(button) inside its own try, add_action
PressButton ==
    /\ pc = "press"
    /\ \/ IF press_button(PlanButton).tag = "ok"
          THEN /\ Executed("press_button", PlanAction, PlanButton)
               /\ call' = ExecutorCall("press_button", <<PlanButton>>, NoTuple, "ok")
          ELSE /\ Log("press_button", "ValueError")
               /\ call' = ExecutorCall("press_button", <<PlanButton>>, NoTuple, "ValueError")
               /\ OnInvalidButton
               /\ UNCHANGED action_history
       \/ \* the keyboard device fails
          /\ press_button(PlanButton).tag = "ok"
          /\ Log("press_button", "Exception")
          /\ call' = ExecutorCall("press_button", <<PlanButton>>, NoTuple, "Exception")
          /\ ExceptException
          /\ UNCHANGED action_history
    /\ UNCHANGED <<step_pdfs, is_running, stop_flag, iteration_count, max_iter_msg, conversation_history>>

\* the screenshot after the action, save_final_screenshot, generate_step_pdf
PostCapture ==
    /\ pc = "post_capture"
    /\ \/ /\ Log("post_capture", "ok")
          /\ generate_step_pdf(iteration_count)
          /\ Continue
       \/ /\ Log("post_capture", "Exception")
          /\ ExceptException
          /\ UNCHANGED step_pdfs
    /\ UNCHANGED <<is_running, stop_flag, iteration_count, max_iter_msg, call, session>>

(***************************************************************************)
(* perform_grid_selection: three stages, then the click.                   *)
(***************************************************************************)
StageOf(p) == CASE p = "stage1" -> 1 [] p = "stage2" -> 2 [] p = "stage3" -> 3 [] OTHER -> 0
GridEv(k) == CASE k = 1 -> "grid_query_1" [] k = 2 -> "grid_query_2" [] OTHER -> "grid_query_3"
GridEvs == {GridEv(1), GridEv(2), GridEv(3)}

\* mutant: every stage locates its cell on the whole screenshot
StageImage_AlwaysScreenshot(k) == screenshot

\* the image stage k overlays and locates on: the screenshot, then the last crop
StageImage(k) == IF k = 1 THEN screenshot ELSE crop_cell(cell_bounds[k - 1])

\* mutant: the offset of the stage-1 cell is left out
ComposeClick_NoStage1(cell_bounds1, cell_bounds2, stage3_center) ==
    << cell_bounds2[1] + stage3_center[1], cell_bounds2[2] + stage3_center[2] >>

\* the stage-3 center carried back to screen coordinates
ComposeClick(cell_bounds1, cell_bounds2, stage3_center) ==
    << cell_bounds1[1] + (cell_bounds2[1] + stage3_center[1]),
       cell_bounds1[2] + (cell_bounds2[2] + stage3_center[2]) >>

\* mutant: a rejected answer makes the stage ask again
StageRejected_Retry(e) == UNCHANGED <<pc, exit_reason, locals>>

\* the answer of a stage is rejected with exception e: nothing in
\* perform_grid_selection catches it
StageRejected(e) == Except(e)

\* the grid query of the current stage, answered from R: select_grid_cell,
\* get_cell_bounds, then the crop or the click coordinate
GridResponds(R) ==
    /\ pc \in {"stage1", "stage2", "stage3"}
    /\ \E transport \in LoopTransports :
         IF make_api_call(transport).tag # "ok"
         THEN /\ Log(GridEv(StageOf(pc)), "Exception")
              /\ ExceptException
         ELSE \E r \in R :
            LET k == StageOf(pc)
                v == IF r = UnparseableGrid THEN Raise("ValueError") ELSE ValidateGridCell(r)
                b == get_cell_bounds(v.val, StageImage(k), GRID_COLS, GRID_ROWS)
            IN  IF v.tag # "ok"
                THEN /\ Log(GridEv(k), v.tag)
                     /\ StageRejected(v.tag)
                ELSE IF b.tag # "ok"
                THEN /\ Log(GridEv(k), b.tag)
                     /\ StageRejected(b.tag)
                ELSE /\ Log(GridEv(k), "ok")
                     /\ sels' = Append(sels, v.val)
                     /\ cell_bounds' = Append(cell_bounds, b.val)
                     /\ IF k < 3
                        THEN /\ pc' = (IF k = 1 THEN "stage2" ELSE "stage3")
                             /\ UNCHANGED click
                        ELSE /\ pc' = "click"
                             /\ click' = ComposeClick(cell_bounds[1], cell_bounds[2],
                                                      get_cell_center(b.val))
                     /\ UNCHANGED <<exit_reason, screenshot, response, plan,
                                    action_description, stop_at_action>>
    /\ UNCHANGED <<flags, session>>

\* the executor function the loop calls for a click kind
ClickFn(action) ==
    CASE action = "MOUSE_LEFT_CLICK" -> "click_at"
      [] action = "MOUSE_RIGHT_CLICK" -> "right_click_at"
      [] OTHER -> "double_click_at"

\* click_at / right_click_at / double_click_at, then add_action
Click ==
    /\ pc = "click"
    /\ \E display \in DisplaySizes \cup { <<HeadlessSide, HeadlessSide>> } :
         IF OutsideScreen(click[1], click[2], display[1], display[2])
         THEN /\ Log(ClickFn(PlanAction), "ValueError")
              /\ call' = ExecutorCall(ClickFn(PlanAction), click, display, "ValueError")
              /\ ExceptValueError
              /\ UNCHANGED action_history
         ELSE \/ /\ Executed(ClickFn(PlanAction), PlanAction,
                             IF PlanTarget # "" THEN PlanTarget ELSE action_description)
                 /\ call' = ExecutorCall(ClickFn(PlanAction), click, display, "ok")
              \/ \* the pointer device fails
                 /\ Log(ClickFn(PlanAction), "Exception")
                 /\ call' = ExecutorCall(ClickFn(PlanAction), click, display, "Exception")
                 /\ ExceptException
                 /\ UNCHANGED action_history
    /\ UNCHANGED <<step_pdfs, is_running, stop_flag, iteration_count, max_iter_msg, conversation_history>>

(***************************************************************************)
(* The action loop.                                                        *)
(***************************************************************************)
Next ==
    \/ Submit \/ Enter \/ Setup \/ LoopTop \/ AfterLoop \/ Finally \/ StopRequest
    \/ Capture \/ PlanResponds \/ StrictResponds
    \/ DispatchNotADict \/ DispatchComplete \/ DispatchError \/ DispatchKeyboardType \/ DispatchButtonPress
    \/ DispatchMouse \/ DispatchUnknown \/ TypeText \/ PressButton \/ PostCapture
    \/ GridResponds(LoopGridResponses) \/ Click

Spec == Init /\ [][Next]_vars

(***************************************************************************)
(* The resolver and the cell locator on arbitrary images.                  *)
(***************************************************************************)
GeomSizes == ((1..MaxSide) \X (1..MaxSide)) \cup { <<55, 28>>, <<1000, 800>> }
\* grid_cols, grid_rows of the direct calls
GeomGrids == { <<3, 3>>, <<2, 4>>, <<4, 2>> }
GeomRefs ==
    { PresentTxt([X |-> x, Y |-> y]) :
        x \in {AbsentTxt, Txt1, Txt2, Txt3, <<52>>, Txt5, Txt0, TxtMinus1, TxtSp2, TxtX},
        y \in {AbsentTxt, TxtA, TxtB, TxtC, TxtD, <<69>>, TxtLowB, TxtEmpty, TxtAB} }

\* the first iteration of a command has dispatched a left click on a
\* screenshot of any size: perform_grid_selection is about to start
GeomInit ==
    /\ pc = "stage1"
    /\ is_running = TRUE
    /\ stop_flag = FALSE
    /\ iteration_count = 1
    /\ conversation_history = <<"user", "assistant">>
    /\ action_history = <<>>
    /\ screenshot \in GeomSizes
    /\ response = [action |-> "MOUSE_LEFT_CLICK", target |-> "OK button"]
    /\ plan = [action |-> "MOUSE_LEFT_CLICK", target |-> "OK button"]
    /\ action_description = "OK button"
    /\ sels = <<>>
    /\ cell_bounds = <<>>
    /\ click = NoTuple
    /\ events = << [ev |-> "capture", out |-> "ok"], [ev |-> "plan_query", out |-> "ok"],
                   [ev |-> "dispatch", out |-> "MOUSE_LEFT_CLICK"] >>
    /\ stop_at_action = FALSE
    /\ exit_reason = "none"
    /\ max_iter_msg = FALSE
    /\ call = NoTuple
    /\ step_pdfs = {}

\* get_cell_bounds called on an image of the screenshot's size
CallGetCellBounds ==
    /\ pc = "stage1"
    /\ call = NoTuple
    /\ \E grid_ref \in GeomRefs, grid \in GeomGrids :
         call' = [fn |-> "get_cell_bounds", grid_ref |-> grid_ref, image_size |-> screenshot,
                  grid_cols |-> grid[1], grid_rows |-> grid[2],
                  result |-> get_cell_bounds(grid_ref, screenshot, grid[1], grid[2])]
    /\ pc' = "returned"
    /\ UNCHANGED <<step_pdfs, is_running, stop_flag, iteration_count, max_iter_msg, session, locals,
                   events, exit_reason>>

GeomNext == GridResponds(GeomGridResponses) \/ CallGetCellBounds

SpecGeom == GeomInit /\ [][GeomNext]_vars

(***************************************************************************)
(* The components called on their own, one call at a time: `call` holds    *)
(* the function, its arguments and what it returned or raised.             *)
(***************************************************************************)
\* what the transport would do at each attempt, one more than can be made
CallTransports == [1..(max_retries + 1) -> BOOLEAN]

CallsInit ==
    /\ pc = "call"
    /\ is_running = FALSE
    /\ stop_flag = FALSE
    /\ iteration_count = 0
    /\ conversation_history = <<>>
    /\ action_history = <<>>
    /\ screenshot = NoTuple
    /\ response = NoDict
    /\ plan = NoDict
    /\ action_description = None
    /\ sels = <<>>
    /\ cell_bounds = <<>>
    /\ click = NoTuple
    /\ events = <<>>
    /\ stop_at_action = FALSE
    /\ exit_reason = "none"
    /\ max_iter_msg = FALSE
    /\ call = NoTuple
    /\ step_pdfs = {}

\* the call returns or raises: its record is kept
Returned(record) ==
    /\ pc = "call"
    /\ call' = record
    /\ pc' = "returned"
    /\ UNCHANGED <<step_pdfs, is_running, stop_flag, iteration_count, max_iter_msg, session, locals,
                   events, exit_reason>>

CallMakeApiCall ==
    \E transport \in CallTransports :
        Returned([fn |-> "_make_api_call", transport |-> transport,
                  result |-> make_api_call(transport)])

\* the images the renderers are called on: small ones, where the least
\* padding applies, and screen-sized ones, where the quarter cell applies
OverlaySizes == GeomSizes \cup { <<600, 480>>, <<607, 487>>, <<1920, 1080>> }

\* grid sizes that are no grid: a zero or negative number of columns or rows
BadGrids == { <<0, 3>>, <<3, 0>>, <<0, 0>>, <<0 - 3, 3>>, <<3, 0 - 3>>, <<0 - 1, 0 - 1>> }

\* the values config.GRID_COLS, config.GRID_ROWS can be given
ConfigGrids == GeomGrids \cup BadGrids

\* image sizes and grid sizes of the calls that walk over all cells of a grid
TileSizes == { <<7, 5>>, <<61, 15>>, <<15, 61>>, <<1000, 800>> }
TileGrids == { <<3, 3>>, <<2, 4>>, <<7, 11>>, <<11, 7>> }

CallOverlay ==
    \E image_size \in OverlaySizes \cup TileSizes, grid \in ConfigGrids \cup TileGrids :
        Returned([fn |-> "overlay_3x3_grid", image_size |-> image_size,
                  grid_cols |-> grid[1], grid_rows |-> grid[2],
                  result |-> overlay_3x3_grid(image_size, grid[1], grid[2])])

\* get_cell_bounds for a cell label of the 3x3 grid, on any grid size
CallLocate ==
    \E image_size \in OverlaySizes, grid \in ConfigGrids,
       grid_ref \in { [X |-> Txt1, Y |-> TxtA], [X |-> Txt2, Y |-> TxtB] } :
        Returned([fn |-> "get_cell_bounds", grid_ref |-> grid_ref, image_size |-> image_size,
                  grid_cols |-> grid[1], grid_rows |-> grid[2],
                  result |-> get_cell_bounds(grid_ref, image_size, grid[1], grid[2])])

\* the decimal text of a column number below 100
ColumnTxt(n) == IF n < 10 THEN <<48 + n>> ELSE <<48 + (n \div 10), 48 + (n % 10)>>

\* get_cell_bounds for each cell of a grid: column col, row row (from 1)
CallCell ==
    \E image_size \in TileSizes, grid \in TileGrids :
        \E col \in 1..grid[1], row \in 1..grid[2] :
            LET grid_ref == [X |-> ColumnTxt(col), Y |-> <<64 + row>>]
            IN  Returned([fn |-> "get_cell_bounds", grid_ref |-> grid_ref, image_size |-> image_size,
                          grid_cols |-> grid[1], grid_rows |-> grid[2], col |-> col, row |-> row,
                          result |-> get_cell_bounds(grid_ref, image_size, grid[1], grid[2])])

\* the stand-alone script's renderer, with its paddings given
CallDrawGrid ==
    \E image_size \in { <<1000, 800>> }, grid \in ConfigGrids,
       pads \in { <<50, 40>>, <<0, 0>>, <<0 - 1, 40>> } :
        Returned([fn |-> "draw_grid_with_labels", image_size |-> image_size,
                  grid_cols |-> grid[1], grid_rows |-> grid[2], pads |-> pads,
                  result |-> draw_grid_with_labels(image_size, grid[2], grid[1],
                                                   pads[1], pads[2])])

\* DesktopControllerUI.on_submit on a window whose is_running is as given:
\* the window's is_running afterwards and the callbacks it invoked
on_submit(command, ui_is_running) ==
    IF command = "" THEN [is_running |-> ui_is_running, callbacks |-> << >>]
    ELSE [is_running |-> TRUE, callbacks |-> << <<"on_submit_callback", command>> >>]

\* DesktopControllerUI.on_stop
on_stop(ui_is_running) ==
    [is_running |-> FALSE, callbacks |-> << <<"on_stop_callback", "">> >>]

UiFns == {"on_submit", "on_stop"}

\* is_running of the window: False when it is created, then as its last
\* handler left it
UiIsRunning == IF pc = "returned" /\ call.fn \in UiFns THEN call.result.is_running ELSE FALSE

\* a handler of the window has run: Return pressed or Run clicked, Stop clicked
UiReturned(record) ==
    /\ pc = "call" \/ (pc = "returned" /\ call.fn \in UiFns)
    /\ call' = record
    /\ pc' = "returned"
    /\ UNCHANGED <<step_pdfs, is_running, stop_flag, iteration_count, max_iter_msg, session, locals,
                   events, exit_reason>>

\* the commands get_command returns: nothing typed, or a command
UiCommands == {"", "open notepad"}

CallOnSubmit ==
    \E command \in UiCommands :
        UiReturned([fn |-> "on_submit", command |-> command, is_running |-> UiIsRunning,
                    result |-> on_submit(command, UiIsRunning)])

CallOnStop ==
    UiReturned([fn |-> "on_stop", command |-> "", is_running |-> UiIsRunning,
                result |-> on_stop(UiIsRunning)])

CallsNext ==
    \/ CallMakeApiCall \/ CallOverlay \/ CallLocate \/ CallCell \/ CallDrawGrid
    \/ CallOnSubmit \/ CallOnStop

SpecCalls == CallsInit /\ [][CallsNext]_vars

(***************************************************************************)
(* Properties.                                                             *)
(***************************************************************************)
Last(q) == q[Len(q)]

\* the bounds get_cell_bounds gives stage k of the current resolution, from
\* the selections alone
ChainBounds(k) ==
    IF k = 1 THEN get_cell_bounds(sels[1], screenshot, GRID_COLS, GRID_ROWS).val
    ELSE IF k = 2
    THEN get_cell_bounds(sels[2],
             crop_cell(get_cell_bounds(sels[1], screenshot, GRID_COLS, GRID_ROWS).val),
             GRID_COLS, GRID_ROWS).val
    ELSE get_cell_bounds(sels[3],
             crop_cell(get_cell_bounds(sels[2],
                 crop_cell(get_cell_bounds(sels[1], screenshot, GRID_COLS, GRID_ROWS).val),
                 GRID_COLS, GRID_ROWS).val),
             GRID_COLS, GRID_ROWS).val

\* C1: the coordinate perform_grid_selection returns is the top-left corner
\* of the stage-1 cell, plus the top-left corner of the stage-2 cell, plus
\* the center of the stage-3 cell, the bounds of each stage being those
\* get_cell_bounds gives on the size of the previous stage's crop (stage 1:
\* on the screenshot).
C1_OffsetComposition ==
    pc = "click" =>
        /\ Len(sels) = 3
        /\ click[1] = ChainBounds(1)[1] + ChainBounds(2)[1] + get_cell_center(ChainBounds(3))[1]
        /\ click[2] = ChainBounds(1)[2] + ChainBounds(2)[2] + get_cell_center(ChainBounds(3))[2]

\* a 9 x 9 screenshot resolved through C3, C3, C3: cells (6,6,9,9), (2,2,3,3)
\* and (0,0,1,1), so the click is at (8, 8)
C1_Witness ==
    /\ pc = "click"
    /\ screenshot = <<9, 9>>
    /\ sels = << [X |-> Txt3, Y |-> TxtC], [X |-> Txt3, Y |-> TxtC], [X |-> Txt3, Y |-> TxtC] >>
    /\ click = <<8, 8>>

\* the column number and the row letter of a reference that has them
IsCellText(grid_ref) ==
    /\ Has(grid_ref, "X") /\ Has(grid_ref, "Y")
    /\ IntParse(grid_ref["X"]).ok
    /\ Len(Strip(grid_ref["Y"])) = 1
    /\ Strip(grid_ref["Y"])[1] \in (65..90) \cup (97..122)
ColumnNumber(grid_ref) == IntParse(grid_ref["X"]).val
\* 1 for A or a, 2 for B or b, ...
RowNumber(grid_ref) ==
    LET c == Strip(grid_ref["Y"])[1] IN IF c >= 97 THEN c - 96 ELSE c - 64

\* C4: get_cell_bounds called with a column outside 1..grid_cols or a row
\* letter beyond the grid_rows-th letter raises ValueError; it returns no
\* bounds.
C4_RangeError ==
    (call # NoTuple /\ IsCellText(call.grid_ref)
       /\ (ColumnNumber(call.grid_ref) \notin 1..call.grid_cols
           \/ RowNumber(call.grid_ref) > call.grid_rows))
    => call.result.tag = "ValueError"

\* X = "5", Y = "A" on a 3 x 3 grid
C4_Witness ==
    /\ call # NoTuple
    /\ call.grid_ref = [X |-> Txt5, Y |-> TxtA]
    /\ call.grid_cols = 3 /\ call.grid_rows = 3
    /\ call.result.tag = "ValueError"


\* every iteration so far executed a click
ClickOnlyRun ==
    /\ Len(action_history) = iteration_count
    /\ \A i \in DOMAIN action_history : action_history[i].action \in MouseKinds

\* C2: the loop never starts more than MAX_ITERATIONS iterations; a command
\* every iteration of which executed a click, and that no stop request, abort
\* or setup failure ended, has run exactly MAX_ITERATIONS iterations when the
\* loop is left, has left it by the while condition, and gets the
\* maximum-iterations message.
C2_IterationBound ==
    /\ iteration_count <= MAX_ITERATIONS
    /\ (pc \in {"after_loop", "finally"} /\ ClickOnlyRun
          /\ exit_reason \notin {"stop", "abort", "fatal"})
       => (iteration_count = MAX_ITERATIONS /\ exit_reason = "exhausted")
    /\ (pc = "finally" /\ ClickOnlyRun /\ exit_reason = "exhausted") => max_iter_msg

\* MAX_ITERATIONS clicks, then the exhaustion exit
C2_Witness ==
    /\ pc = "finally"
    /\ exit_reason = "exhausted"
    /\ ClickOnlyRun
    /\ iteration_count = MAX_ITERATIONS
    /\ max_iter_msg

\* C3: when a click has been executed for a planning response whose kind is
\* MOUSE_LEFT_CLICK, MOUSE_RIGHT_CLICK or MOUSE_DOUBLE_CLICK with a target,
\* the resolver was given that target, the executor function called is the
\* one of that kind, and the history entry carries that kind and that target.
C3_ClickMatchesPlan ==
    (pc = "post_capture" /\ Get(response, "action", "") \in MouseKinds
       /\ Get(response, "target", "") # "")
    => /\ action_description = response["target"]
       /\ Last(events) = [ev |-> ClickFn(response["action"]), out |-> "ok"]
       /\ Last(action_history) = [action |-> response["action"], target |-> response["target"]]

\* the exception an event of the iteration ended with, if any
IsValidationError(e) == e.out = "ValueError"
IsOtherException(e) == e.out \in {"Exception", "TypeError", "AttributeError"}

\* C5: a step in which an operation of the iteration raises ValueError
\* leaves the loop at its top with the command not ended; a step in which it
\* raises any other exception leaves the while loop as an abort, and from an
\* abort on no iteration is started until the next command is entered.
C5_ErrorScopes ==
    /\ [][ (Len(events') = Len(events) + 1)
             => /\ IsValidationError(Last(events')) => (pc' = "top" /\ exit_reason' = "none")
                /\ IsOtherException(Last(events'))
                     => (pc' = "after_loop" /\ exit_reason' = "abort") ]_vars
    /\ [][ (exit_reason = "abort" /\ pc # "enter")
             => (iteration_count' = iteration_count /\ events' = events /\ pc' \notin BodyPcs) ]_vars

\* iteration 1 ended on a click outside the screen, iteration 2 can start
C5_Witness ==
    /\ pc = "top"
    /\ iteration_count = 1
    /\ ~stop_flag
    /\ Last(events) = [ev |-> "click_at", out |-> "ValueError"]
    /\ exit_reason = "none"

\* C6: the loop is left on a stop request only from its top; a step of the
\* iteration's body taken while a stop is pending goes where it goes without
\* one; and at the top with a stop pending the loop is left with no new
\* iteration started and no event of one.
C6_StopAtTopOnly ==
    [][ /\ (exit_reason' = "stop" /\ exit_reason # "stop") => (pc = "top" /\ stop_flag)
        /\ (pc \in BodyPcs /\ stop_flag /\ pc' # pc) => (pc' \in BodyPcs \cup {"top", "after_loop"}
                                                         /\ exit_reason' \in {"none", "abort", "complete", "error"})
        /\ (pc = "top" /\ stop_flag /\ pc' # pc)
             => (pc' = "after_loop" /\ iteration_count' = iteration_count /\ events' = events
                 /\ action_history' = action_history) ]_vars

\* a click executed while a stop request was pending
C6_Witness ==
    /\ pc = "post_capture"
    /\ stop_at_action
    /\ Last(events) = [ev |-> "click_at", out |-> "ok"]

\* the positions of the events named ev
EventsNamed(ev) == {i \in DOMAIN events : events[i].ev = ev}

\* C7: in one iteration the planner is queried once; a strict query is made
\* exactly when the first answer did not parse, directly after it, and at
\* most once; a strict answer that does not parse either is a ValueError that
\* ends the iteration; a grid query is made at most once per stage, and one
\* whose answer is malformed ends the iteration.
C7_OneStrictRetry ==
    /\ Cardinality(EventsNamed("plan_query")) <= 1
    /\ Cardinality(EventsNamed("strict_query")) <= 1
    /\ \A i \in EventsNamed("strict_query") :
          i > 1 /\ events[i - 1] = [ev |-> "plan_query", out |-> "parse_fail"]
    /\ \A i \in EventsNamed("plan_query") :
          events[i].out = "parse_fail"
             => IF i < Len(events) THEN events[i + 1].ev = "strict_query" ELSE pc = "strict"
    /\ \A i \in EventsNamed("strict_query") :
          events[i].out = "ValueError"
             => (i = Len(events) /\ pc \notin BodyPcs /\ exit_reason # "abort")
    /\ \A k \in 1..3 :
          /\ Cardinality(EventsNamed(GridEv(k))) <= 1
          /\ \A i \in EventsNamed(GridEv(k)) :
                events[i].out = "ValueError"
                   => (i = Len(events) /\ pc \notin BodyPcs /\ exit_reason # "abort")

\* both the first answer and the strict answer were not JSON
C7_Witness ==
    /\ pc = "top"
    /\ events = << [ev |-> "capture", out |-> "ok"],
                   [ev |-> "plan_query", out |-> "parse_fail"],
                   [ev |-> "strict_query", out |-> "ValueError"] >>

\* the last thing the command did is dispatch a COMPLETE or ERROR plan
TerminalSeen ==
    /\ events # <<>>
    /\ Last(events).ev = "dispatch"
    /\ Last(events).out \in {"COMPLETE", "ERROR"}

\* the events of an iteration that made no executor call
NoExecutorCall(evs) ==
    \A i \in DOMAIN evs : evs[i].ev \in {"capture", "plan_query", "strict_query", "dispatch"}

\* C8: the step that dispatches a COMPLETE or ERROR plan leaves the while
\* loop; the iteration has made no executor call and the action history is
\* as it was; and from then on the command has no further event, iteration
\* or history entry.
C8_TerminalStops ==
    [][ TerminalSeen'
          => /\ pc' \in {"after_loop", "finally", "idle", "enter"}
             /\ exit_reason' \in {"complete", "error"}
             /\ NoExecutorCall(events')
             /\ action_history' = action_history
             /\ iteration_count' = iteration_count
             /\ TerminalSeen => events' = events ]_vars

\* a command that clicked once, then was told COMPLETE, and has returned
C8_Witness ==
    /\ pc = "idle"
    /\ exit_reason = "complete"
    /\ TerminalSeen
    /\ iteration_count = 2
    /\ Len(action_history) = 1

\* C9: the maximum-iterations message is printed only for a command whose
\* loop ended by the while condition.
C9_ExhaustionOnlyAtCap == max_iter_msg => exit_reason = "exhausted"

\* the grid queries among the events
IsGridQuery(e) == e.ev \in GridEvs
GridQueries == SelectSeq(events, IsGridQuery)
ClickFns == {"click_at", "right_click_at", "double_click_at"}

\* C10: the grid queries of an iteration are stage 1, stage 2, stage 3 in
\* that order, each at most once; a stage whose answer is rejected is the
\* iteration's last event, and the resolver is left; a click function is
\* called only directly after an accepted stage-3 answer.
C10_StagesInOrder ==
    /\ Len(GridQueries) <= 3
    /\ \A k \in DOMAIN GridQueries : GridQueries[k].ev = GridEv(k)
    /\ \A i \in DOMAIN events :
          (IsGridQuery(events[i]) /\ events[i].out # "ok")
             => (i = Len(events) /\ pc \notin {"stage1", "stage2", "stage3", "click", "post_capture"})
    /\ \A i \in DOMAIN events :
          events[i].ev \in ClickFns
             => (i > 1 /\ events[i - 1] = [ev |-> GridEv(3), out |-> "ok"])

\* stage 1 accepted, stage 2 rejected: the iteration is over
C10_Witness ==
    /\ pc = "top"
    /\ Len(events) = 5
    /\ events[4] = [ev |-> "grid_query_1", out |-> "ok"]
    /\ events[5] = [ev |-> "grid_query_2", out |-> "ValueError"]

\* the selections (2,C), (1,A), (3,B) of the worked example
ExampleSels == << [X |-> Txt2, Y |-> TxtC], [X |-> Txt1, Y |-> TxtA], [X |-> Txt3, Y |-> TxtB] >>

\* C11: on a 1000 x 800 screenshot the resolution through (2,C), (1,A),
\* (3,B) returns the click coordinate (425, 577).
C11_WorkedExampleClick ==
    (pc = "click" /\ screenshot = <<1000, 800>> /\ sels = ExampleSels) => click = <<425, 577>>

C11_Witness ==
    /\ pc = "click"
    /\ screenshot = <<1000, 800>>
    /\ sels = ExampleSels
    /\ click = <<425, 577>>

\* the worked example has got as far as stage k
ExampleUpTo(k) ==
    /\ screenshot = <<1000, 800>>
    /\ Len(sels) >= k
    /\ Len(cell_bounds) >= k
    /\ SubSeq(sels, 1, k) = SubSeq(ExampleSels, 1, k)

\* the first two stages of the worked example: bounds and crop sizes
ExampleStages12 ==
    /\ ExampleUpTo(1) => (cell_bounds[1] = <<333, 533, 666, 800>>
                          /\ crop_cell(cell_bounds[1]) = <<333, 267>>)
    /\ ExampleUpTo(2) => (cell_bounds[2] = <<0, 0, 111, 89>>
                          /\ crop_cell(cell_bounds[2]) = <<111, 89>>)

\* C12 as stated: stage 1 gives (333,533,666,800), stage 2 on the 333 x 267
\* crop gives (0,0,111,89), stage 3 on the 111 x 89 crop gives
\* (74,30,111,59) with center (92,44).
C12_StageBoundsAsStated ==
    /\ ExampleStages12
    /\ ExampleUpTo(3) => (cell_bounds[3] = <<74, 30, 111, 59>>
                          /\ get_cell_center(cell_bounds[3]) = <<92, 44>>)

\* C12, amended: the same, with the stage-3 bounds (74,29,111,59): the top
\* edge of row B of an 89-pixel-high crop is int(29.67) = 29.
C12_StageBounds ==
    /\ ExampleStages12
    /\ ExampleUpTo(3) => (cell_bounds[3] = <<74, 29, 111, 59>>
                          /\ get_cell_center(cell_bounds[3]) = <<92, 44>>)

C12_Witness ==
    /\ ExampleUpTo(3)
    /\ cell_bounds = << <<333, 533, 666, 800>>, <<0, 0, 111, 89>>, <<74, 29, 111, 59>> >>

\* a rectangle with a pixel in it
NonEmptyRect(b) == b[1] < b[3] /\ b[2] < b[4]

\* C13: the bounds get_cell_bounds returns for an in-range cell of an image
\* at least one pixel wide and high have x1 < x2 and y1 < y2, for a direct
\* call on any grid and for each stage of a resolution.
C13_NoEmptyCell ==
    /\ (call # NoTuple /\ call.result.tag = "ok") => NonEmptyRect(call.result.val)
    /\ \A k \in DOMAIN cell_bounds :
          (StageImage(k)[1] >= 1 /\ StageImage(k)[2] >= 1) => NonEmptyRect(cell_bounds[k])

\* the column and row numbers get_cell_bounds reads from a reference it accepts
CalledColumn == IntParse(Get(call.grid_ref, "X", Txt1)).val
CalledRow == Upper(Strip(Get(call.grid_ref, "Y", TxtA)))[1] - 64

\* rectangle b lies in an image of the given size
WithinImage(b, size) ==
    /\ 0 <= b[1] /\ b[1] <= size[1] /\ 0 <= b[3] /\ b[3] <= size[1]
    /\ 0 <= b[2] /\ b[2] <= size[2] /\ 0 <= b[4] /\ b[4] <= size[2]

C15_RejectedAnswerIsIterationScoped ==
    (events # <<>> /\ IsGridQuery(Last(events)) /\ Last(events).out \notin {"ok", "Exception"})
    => (exit_reason # "abort" /\ pc \notin BodyPcs)

\* C16: a plan that reaches the dispatch step has an action key.
C16_DispatchedPlanHasAction ==
    (pc = "dispatch" /\ plan # ScalarJson) => Has(plan, "action")

\* the kinds the dispatch of run_action_loop has a branch for
DispatchedKinds == {"COMPLETE", "ERROR", "KEYBOARD_TYPE", "KEYBOARD_BUTTON_PRESS"} \cup MouseKinds

\* C17: a response whose action is none of the kinds reaches the dispatch
\* step as a MOUSE_LEFT_CLICK plan whose target is that action text.
C17_LegacyActionBecomesLeftClick ==
    (pc = "dispatch" /\ response # ScalarJson /\ Has(response, "action")
       /\ response["action"] \notin DispatchedKinds)
    => (PlanAction = "MOUSE_LEFT_CLICK" /\ PlanTarget = response["action"])

\* C18: the dispatch of a plan whose kind has no branch goes back to the top
\* of the loop with the command alive, the iteration having made no executor
\* call and the action history as it was.
C18_UnknownKindSkipped ==
    [][ (pc = "dispatch" /\ plan # ScalarJson /\ PlanAction \notin DispatchedKinds /\ pc' # pc)
          => /\ pc' = "top"
             /\ exit_reason' = "none"
             /\ action_history' = action_history
             /\ iteration_count' = iteration_count
             /\ NoExecutorCall(events') ]_vars

\* iteration 1 was skipped for an unknown kind, iteration 2 can start
C18_Witness ==
    /\ pc = "top"
    /\ iteration_count = 1
    /\ ~stop_flag
    /\ exit_reason = "none"
    /\ Last(events) = [ev |-> "dispatch", out |-> "unknown"]
    /\ action_history = <<>>

\* C19: the dispatch of a KEYBOARD_TYPE plan with empty text goes back to the
\* top of the loop with no executor call and the action history as it was;
\* with text it goes on to type_text, and when type_text has returned it was
\* called once in the iteration and (KEYBOARD_TYPE, text) is appended to the
\* action history.
C19_KeyboardType ==
    /\ [][ (pc = "dispatch" /\ PlanAction = "KEYBOARD_TYPE" /\ pc' # pc)
             => IF PlanText = ""
                THEN /\ pc' = "top"
                     /\ exit_reason' = "none"
                     /\ action_history' = action_history
                     /\ NoExecutorCall(events')
                ELSE /\ pc' = "type"
                     /\ action_history' = action_history ]_vars
    /\ [][ (pc = "type" /\ pc' = "post_capture")
             => /\ action_history' = Append(action_history,
                                            [action |-> "KEYBOARD_TYPE", target |-> PlanText])
                /\ Last(events') = [ev |-> "type_text", out |-> "ok"]
                /\ Cardinality({i \in DOMAIN events' : events'[i].ev = "type_text"}) = 1 ]_vars

\* iteration 1 was skipped for its empty text, iteration 2 can start
C19_Witness ==
    /\ pc = "top"
    /\ iteration_count = 1
    /\ ~stop_flag
    /\ exit_reason = "none"
    /\ Last(events) = [ev |-> "dispatch", out |-> "skip_no_text"]
    /\ action_history = <<>>

\* C20: when press_button refuses the plan's button name, the step goes back
\* to the top of the loop with the command alive, the press_button call is
\* logged as a ValueError and not as a key press, and the action history is
\* as it was.
C20_InvalidButtonSkipped ==
    [][ (pc = "press" /\ press_button(PlanButton).tag # "ok" /\ pc' # pc)
          => /\ pc' = "top"
             /\ exit_reason' = "none"
             /\ action_history' = action_history
             /\ Last(events') = [ev |-> "press_button", out |-> "ValueError"] ]_vars

\* iteration 1 ended on a refused button name, iteration 2 can start
C20_Witness ==
    /\ pc = "top"
    /\ iteration_count = 1
    /\ ~stop_flag
    /\ exit_reason = "none"
    /\ Last(events) = [ev |-> "press_button", out |-> "ValueError"]
    /\ action_history = <<>>

FirstQueryPlan == Len(events) >= 2 /\ events[2] = [ev |-> "plan_query", out |-> "ok"]

FallbackOf(r) ==
    IF Has(r, "description") THEN r["description"]
    ELSE IF Has(r, "target") THEN r["target"]
    ELSE ""

\* the plan of answer r lacking parameter `key` has the fallback as `key`
FellBack(key) ==
    /\ FallbackOf(response) # ""
    /\ Has(plan, key)
    /\ plan[key] = FallbackOf(response)

(***************************************************************************)
(* C22: whenever get_action_plan has returned a plan for a KEYBOARD_TYPE   *)
(* answer with no text, the plan's text is the answer's description if it  *)
(* has one, else its target, and an answer with neither does not return (a *)
(* missing-parameter error is raised); the same for KEYBOARD_BUTTON_PRESS  *)
(* and button.                                                             *)
(***************************************************************************)
C22_KeyboardFallback ==
    (pc = "dispatch" /\ response # ScalarJson /\ Has(response, "action")) =>
        /\ (response["action"] = "KEYBOARD_TYPE" /\ ~Has(response, "text")) => FellBack("text")
        /\ (response["action"] = "KEYBOARD_BUTTON_PRESS" /\ ~Has(response, "button"))
             => FellBack("button")

\* the first iteration of a command has not made its planner query yet
BeforeFirstQuery ==
    \/ pc = "top" /\ iteration_count = 0
    \/ pc \in {"capture", "plan", "strict"} /\ iteration_count = 1

(***************************************************************************)
(* C23: a command starts on a fresh session.  Entering run_action_loop     *)
(* clears the stop flag and zeroes the iteration counter, the set-up that  *)
(* follows empties both histories, and they are still empty at the first   *)
(* capture and the first planner query, whatever the session held when the *)
(* previous command ended.                                                 *)
(***************************************************************************)
C23_FreshSession ==
    /\ [][(pc = "enter" /\ pc' # pc) => (~stop_flag' /\ iteration_count' = 0)]_vars
    /\ [][(pc = "setup" /\ pc' = "top")
            => (conversation_history' = <<>> /\ action_history' = <<>>)]_vars
    /\ [](BeforeFirstQuery => (conversation_history = <<>> /\ action_history = <<>>))

\* a second command is being set up: the loop is entered (flag cleared, counter
\* zero) while the session still holds both histories of the previous command
C23_Witness ==
    /\ pc = "setup"
    /\ ~stop_flag
    /\ iteration_count = 0
    /\ conversation_history # <<>>
    /\ action_history # <<>>

\* the first attempt of 1..max_retries the transport succeeds at, 0 if none
FirstSuccess(transport) ==
    IF \E i \in 1..max_retries : transport[i]
    THEN CHOOSE i \in 1..max_retries :
            transport[i] /\ \A j \in 1..(i - 1) : ~transport[j]
    ELSE 0

\* the waits after failed attempts 0 .. n - 1: 1, 2, 4, ... seconds
Backoff(n) == [k \in 1..n |-> 2 ^ (k - 1)]

(***************************************************************************)
(* C24: one _make_api_call makes at most max_retries attempts.  It returns *)
(* at the first attempt that succeeds, having slept 2^attempt seconds      *)
(* after each failed attempt before it; when all max_retries attempts fail *)
(* it raises after the last one, having slept after each but the last, and *)
(* makes no further attempt even where the transport would then succeed.   *)
(***************************************************************************)
C24_BoundedRetry ==
    (pc = "returned" /\ call.fn = "_make_api_call") =>
        LET first == FirstSuccess(call.transport)
            r == call.result
        IN  /\ r.attempts \in 1..max_retries
            /\ first # 0 => (r.tag = "ok" /\ r.attempts = first /\ r.slept = Backoff(first - 1))
            /\ first = 0 => /\ r.tag = "Exception"
                            /\ r.attempts = max_retries
                            /\ r.slept = Backoff(max_retries - 1)

\* every attempt failed, and the transport would have succeeded at one more
C24_Witness ==
    /\ pc = "returned"
    /\ call.fn = "_make_api_call"
    /\ call.transport = <<FALSE, FALSE, FALSE, TRUE>>
    /\ call.result = [tag |-> "Exception", attempts |-> 3, slept |-> <<1, 2>>]

ExecutorFns == {"click_at", "right_click_at", "double_click_at", "type_text", "press_button"}

\* entry i of the iteration's record is an executor call that returned
ExecutedAt(i) == events[i].ev \in ExecutorFns /\ events[i].out = "ok"

\* the recorded executor call issued its device event and then slept once
SettledCall ==
    /\ Len(call.effects) = 2
    /\ call.effects[1] = DeviceEvent(call.fn)
    /\ call.effects[2] = "sleep"

(***************************************************************************)
(* C25: every executed action (a click of any kind, typed text, a button   *)
(* press) is followed by one settle delay inside the executor call, before *)
(* the call returns; the capture after an action is taken only after such  *)
(* a call has returned, so no capture follows an action without the delay. *)
(***************************************************************************)
C25_SettleDelay ==
    \A i \in 1..Len(events) :
        /\ ExecutedAt(i) => (call.fn = events[i].ev /\ call.result = "ok" /\ SettledCall)
        /\ events[i].ev = "post_capture" => (i > 1 /\ ExecutedAt(i - 1))

C25_Witness ==
    /\ pc = "top"
    /\ Len(events) > 1
    /\ Last(events) = [ev |-> "post_capture", out |-> "ok"]
    /\ call.fn = "type_text"
    /\ call.effects = <<"write", "sleep">>

(***************************************************************************)
(* C26: a submission that arrives while a command is running is rejected:  *)
(* the window's submit handler, entered with is_running set, does not hand *)
(* the command on to its submit callback, so no second action loop is      *)
(* started next to the running one.                                        *)
(***************************************************************************)
C26_SubmissionRejectedWhileRunning ==
    (pc = "returned" /\ call.fn = "on_submit" /\ call.is_running)
        => call.result.callbacks = << >>

\* the renderer has returned an image for a grid of at least one column and row
Rendered ==
    /\ pc = "returned"
    /\ call.fn = "overlay_3x3_grid"
    /\ call.grid_cols > 0
    /\ call.grid_rows > 0

(***************************************************************************)
(* C27 (as stated): the left margin is max(50, round(width/cols * 0.25))   *)
(* and the bottom margin max(40, round(height/rows * 0.25)), for every     *)
(* image and grid size                                                     *)
(***************************************************************************)
C27_MarginsRounded ==
    Rendered =>
        /\ call.result.val.left_padding
             = Max(50, RoundDiv(call.image_size[1], 4 * call.grid_cols))
        /\ call.result.val.bottom_padding
             = Max(40, RoundDiv(call.image_size[2], 4 * call.grid_rows))

\* m is the quarter of side / n with its fraction dropped, but at least least
TruncatedQuarterOrLeast(m, side, n, least) ==
    /\ m >= least
    /\ 4 * n * m <= side \/ m = least
    /\ side < 4 * n * (m + 1)

(***************************************************************************)
(* C27 (amended): for every image size and grid size, the renderer's left  *)
(* margin equals max(50, floor(width/cols * 0.25)) and its bottom margin   *)
(* max(40, floor(height/rows * 0.25)): the quarter cell is truncated, not  *)
(* rounded; the image returned is wider and higher by these margins.       *)
(***************************************************************************)
C27_MarginsTruncated ==
    Rendered =>
        LET r == call.result.val
        IN  /\ TruncatedQuarterOrLeast(r.left_padding, call.image_size[1], call.grid_cols, 50)
            /\ TruncatedQuarterOrLeast(r.bottom_padding, call.image_size[2], call.grid_rows, 40)
            /\ r.size = << call.image_size[1] + r.left_padding,
                           call.image_size[2] + r.bottom_padding >>

\* the 1000x800 screenshot on the 3x3 grid: 83 and 66, where rounding gives 67
C27_Witness ==
    /\ Rendered
    /\ call.image_size = <<1000, 800>>
    /\ call.grid_cols = 3
    /\ call.grid_rows = 3
    /\ call.result.val.left_padding = 83
    /\ call.result.val.bottom_padding = 66

(***************************************************************************)
(* C28: a renderer or the cell locator called with a number of columns or  *)
(* rows that is zero or negative raises an error: it returns no annotated  *)
(* image and no bounds.                                                    *)
(***************************************************************************)
C28_BadGridFailsFast ==
    (/\ pc = "returned"
     /\ call.fn \in {"overlay_3x3_grid", "get_cell_bounds", "draw_grid_with_labels"}
     /\ (call.grid_cols <= 0 \/ call.grid_rows <= 0))
    => call.result.tag # "ok"

(***************************************************************************)
(* C29: every iteration that has run has its step document.  Between       *)
(* iterations and after the loop, each iteration from 1 to the current one *)
(* has had its artifacts written into a document, whether it ended by an   *)
(* executed action, a terminal plan, a skip, a validation error or an      *)
(* abort.                                                                  *)
(***************************************************************************)
C29_EveryIterationHasDocument ==
    pc \in {"top", "after_loop", "finally", "idle"}
        => \A step \in 1..iteration_count : step \in step_pdfs

ClickExecutors == {"click_at", "right_click_at", "double_click_at"}

\* the point is not in [0, width) x [0, height) of the display
OutsideDisplay(point, display) ==
    ~(0 <= point[1] /\ point[1] < display[1] /\ 0 <= point[2] /\ point[2] < display[2])

(***************************************************************************)
(* C30: a click of any kind requested at a point outside the display fails *)
(* with a range error (ValueError) before any device event and without the *)
(* settle delay; in the loop the action history is left as it was and the  *)
(* loop goes on to its next iteration.                                     *)
(***************************************************************************)
C30_ClickOutsideDisplay ==
    [][(pc = "click" /\ pc' # pc /\ OutsideDisplay(call'.args, call'.display))
        => /\ call'.fn \in ClickExecutors
           /\ call'.args = click
           /\ call'.result = "ValueError"
           /\ call'.effects = << >>
           /\ action_history' = action_history
           /\ pc' = "top"
           /\ exit_reason' = "none"
           /\ Last(events') = [ev |-> call'.fn, out |-> "ValueError"]]_vars

\* the click at (499, 785) was requested on a 500x400 display
C30_Witness ==
    /\ pc = "top"
    /\ Len(events) > 0
    /\ Last(events).ev \in ClickExecutors
    /\ call.fn = Last(events).ev
    /\ call.display = <<500, 400>>
    /\ OutsideDisplay(call.args, call.display)
    /\ call.result = "ValueError"

\* v lies in lo .. hi - 1, or is lo when that range is empty
InCellSpan(v, lo, hi) == lo <= v /\ v < Max(hi, lo + 1)

(***************************************************************************)
(* C31: the coordinate perform_grid_selection returns lies inside the      *)
(* stage-1 cell (at its left or top edge when the cell is empty there) and *)
(* inside the screenshot, for every screenshot size and every three valid  *)
(* cell references; a display of the screenshot's size passes the          *)
(* executor's bounds check for it.                                         *)
(***************************************************************************)
C31_ClickInsideStage1Cell ==
    pc = "click" =>
        /\ InCellSpan(click[1], cell_bounds[1][1], cell_bounds[1][3])
        /\ InCellSpan(click[2], cell_bounds[1][2], cell_bounds[1][4])
        /\ 0 <= click[1] /\ click[1] < screenshot[1]
        /\ 0 <= click[2] /\ click[2] < screenshot[2]
        /\ ~OutsideScreen(click[1], click[2], screenshot[1], screenshot[2])

\* a 2 x 2 screenshot resolved through A1: the stage-1 cell is empty
C31_Witness ==
    /\ pc = "click"
    /\ screenshot = <<2, 2>>
    /\ sels[1] = [X |-> Txt1, Y |-> TxtA]
    /\ cell_bounds[1] = <<0, 0, 0, 0>>
    /\ click = <<0, 0>>

ExecutorPcs == {"type", "press", "click"}

\* this step is an executor call that returned
ExecutorReturned == pc \in ExecutorPcs /\ pc' # pc /\ call'.result = "ok"

(***************************************************************************)
(* C32: within a command the action history only grows at its end, by one  *)
(* entry per executor call that returned and in the order of these calls:  *)
(* a step changes the history only if it is such a call, the entry it adds *)
(* names the plan's action, and a skipped, failed or terminal iteration    *)
(* adds nothing.  Only the set-up of a command empties it.                 *)
(***************************************************************************)
C32_HistoryMatchesExecutedActions ==
    /\ [][(action_history' # action_history /\ pc # "setup")
            => /\ ExecutorReturned
               /\ action_history' = Append(action_history, Last(action_history'))
               /\ Last(action_history').action = PlanAction
               /\ Last(events') = [ev |-> call'.fn, out |-> "ok"]]_vars
    /\ [][(pc \in ExecutorPcs /\ pc' # pc)
            => (Len(action_history') = Len(action_history) + 1) = (call'.result = "ok")]_vars
    /\ [][(pc \notin ExecutorPcs /\ pc # "setup") => action_history' = action_history]_vars

\* typed text, then a click: two entries in the order of the two calls
C32_Witness ==
    /\ Len(action_history) = 2
    /\ action_history[1] = [action |-> "KEYBOARD_TYPE", target |-> "hi"]
    /\ action_history[2].action = "MOUSE_LEFT_CLICK"
    /\ pc = "post_capture"
    /\ call.fn = "click_at"

\* how far a position is from the end of its iteration, and the positions
\* outside the iteration body from the end of the command
PcRank(p) ==
    CASE p = "capture" -> 15 [] p = "plan" -> 14 [] p = "strict" -> 13 [] p = "dispatch" -> 12
      [] p \in {"type", "press", "stage1"} -> 11 [] p = "stage2" -> 10 [] p = "stage3" -> 9
      [] p = "click" -> 8 [] p = "post_capture" -> 7 [] p = "setup" -> 6 [] p = "top" -> 5
      [] p = "after_loop" -> 2 [] p = "finally" -> 1 [] OTHER -> 0

\* what is left of the command: the iterations the cap still allows, then
\* the steps of the current one
Remaining(count, p) == (MAX_ITERATIONS - count) * 20 + PcRank(p)

(***************************************************************************)
(* C33: whatever the oracle answers, each loop turn adds exactly one to    *)
(* the iteration counter, before the body runs, so that a skipped or       *)
(* rejected iteration counts like any other; nothing else changes the      *)
(* counter during a command, it never exceeds MAX_ITERATIONS, and every    *)
(* step of run_action_loop brings the command nearer to its end: once      *)
(* entered, the loop returns after at most MAX_ITERATIONS iterations if    *)
(* each of its calls returns.                                              *)
(***************************************************************************)
C33_CounterBoundsTheLoop ==
    /\ [][(pc = "top" /\ pc' = "capture") => iteration_count' = iteration_count + 1]_vars
    /\ [][pc \notin {"top", "enter"} => iteration_count' = iteration_count]_vars
    /\ [](iteration_count \in 0..MAX_ITERATIONS)
    /\ [][(pc \notin {"idle", "enter", "call", "returned"} /\ pc' # pc)
            => (/\ Remaining(iteration_count', pc') < Remaining(iteration_count, pc)
                /\ Remaining(iteration_count', pc') >= 0)]_vars

\* a command whose every iteration was skipped or rejected has used up the cap
C33_Witness ==
    /\ pc = "after_loop"
    /\ exit_reason = "exhausted"
    /\ iteration_count = MAX_ITERATIONS
    /\ action_history = <<>>
    /\ step_pdfs = {}

ExitReasons == {"complete", "error", "stop", "exhausted", "abort", "fatal"}

(***************************************************************************)
(* C34: is_running is true exactly while run_action_loop is executing.  It *)
(* is set on entry and stays set through set-up, every iteration and the   *)
(* code after the loop; however the loop was left (COMPLETE, ERROR, stop,  *)
(* exhaustion, abort of an iteration, an exception during set-up) the      *)
(* finally clause is passed and clears it, so that back at the prompt the  *)
(* controller is not running and takes the next command.                   *)
(***************************************************************************)
C34_RunningFlagSpansTheLoop ==
    /\ [](is_running <=> pc # "idle")
    /\ [][(pc' = "idle" /\ pc # "idle")
            => (pc = "finally" /\ ~is_running' /\ exit_reason \in ExitReasons)]_vars
    /\ [][(exit_reason' # exit_reason /\ exit_reason' # "none")
            => (exit_reason' \in ExitReasons /\ pc' \in {"after_loop", "finally"} /\ is_running')]_vars
    /\ [][pc = "after_loop" => pc' \in {"after_loop", "finally"}]_vars

\* set-up raised before the loop: the flag is cleared all the same
C34_Witness ==
    /\ pc = "idle"
    /\ exit_reason = "fatal"
    /\ ~is_running

(***************************************************************************)
(* C35: a stop request issued while is_running is true is never lost: the  *)
(* flag it sets stays set for as long as the command is running, the entry *)
(* of the loop included, and with the flag set the loop starts no new      *)
(* iteration.                                                              *)
(***************************************************************************)
C35_StopRequestNeverLost ==
    /\ [][(is_running /\ stop_flag /\ is_running') => stop_flag']_vars
    /\ [][(is_running /\ stop_flag) => iteration_count' <= iteration_count]_vars

\* get_cell_bounds has returned the bounds of the cell in column col, row row
CellCallReturned ==
    /\ pc = "returned"
    /\ call.fn = "get_cell_bounds"
    /\ "col" \in DOMAIN call
    /\ call.result.tag = "ok"

\* the bounds of the cell in column col, row row of the grid of the call
NeighbourBounds(col, row) ==
    get_cell_bounds([X |-> ColumnTxt(col), Y |-> <<64 + row>>], call.image_size,
                    call.grid_cols, call.grid_rows).val

\* the cells meet along their shared edges and the first ones start at 0
CellsAdjoin ==
    CellCallReturned =>
        LET b == call.result.val
        IN  /\ call.col = 1 => b[1] = 0
            /\ call.row = 1 => b[2] = 0
            /\ call.col < call.grid_cols => b[3] = NeighbourBounds(call.col + 1, call.row)[1]
            /\ call.row < call.grid_rows => b[4] = NeighbourBounds(call.col, call.row + 1)[2]

(***************************************************************************)
(* C36: for every image size and grid size, the cells of get_cell_bounds   *)
(* tile the image: column 1 starts at x1 = 0, the x2 of a column is the x1 *)
(* of the next one, the last column ends at x2 = width, and the same holds *)
(* for the rows and the height.                                            *)
(***************************************************************************)
C36_CellsTileTheImage ==
    /\ CellsAdjoin
    /\ CellCallReturned =>
         /\ call.col = call.grid_cols => call.result.val[3] = call.image_size[1]
         /\ call.row = call.grid_rows => call.result.val[4] = call.image_size[2]

\* overlay_3x3_grid has returned an annotated image
OverlayReturned ==
    /\ pc = "returned"
    /\ call.fn = "overlay_3x3_grid"
    /\ call.result.tag = "ok"

\* get_cell_bounds of the cell in column col, row row on the image and grid of
\* the overlay call
CellOfOverlay(col, row) ==
    get_cell_bounds([X |-> ColumnTxt(col), Y |-> <<64 + row>>], call.image_size,
                    call.grid_cols, call.grid_rows).val

(***************************************************************************)
(* C37: the grid drawn is the grid used for cropping.  For every image     *)
(* size the i-th interior vertical line of overlay_3x3_grid, minus the     *)
(* left margin, is the x1 get_cell_bounds returns for column i+1 on the    *)
(* same image, and the i-th interior horizontal line is the y1 of row i+1. *)
(***************************************************************************)
C37_DrawnGridIsCropGrid ==
    OverlayReturned =>
        LET r == call.result.val
        IN  /\ Len(r.vlines) = Max(call.grid_cols - 1, 0)
            /\ Len(r.hlines) = Max(call.grid_rows - 1, 0)
            /\ call.grid_rows > 0 =>
                 \A i \in DOMAIN r.vlines : r.vlines[i] - r.left_padding = CellOfOverlay(i + 1, 1)[1]
            /\ call.grid_cols > 0 =>
                 \A i \in DOMAIN r.hlines : r.hlines[i] = CellOfOverlay(1, i + 1)[2]

C37_Witness ==
    /\ OverlayReturned
    /\ call.image_size = <<61, 15>>
    /\ call.grid_cols = 7
    /\ call.grid_rows = 11
    /\ call.result.val.left_padding = 50
    /\ call.result.val.vlines = <<58, 67, 76, 84, 93, 102>>
    /\ call.result.val.hlines = <<1, 2, 4, 5, 6, 8, 9, 10, 12, 13>>

\* the prior-exchange history is a sequence of user / assistant pairs
HistoryInPairs ==
    /\ Len(conversation_history) % 2 = 0
    /\ \A i \in DOMAIN conversation_history :
         conversation_history[i] = IF i % 2 = 1 THEN "user" ELSE "assistant"

\* a planner call that delivers no plan and the grid-selection queries leave
\* the prior-exchange history as it is
HistoryKeptWithoutPlan ==
    /\ [][(pc \in {"plan", "strict"} /\ pc' # "dispatch")
            => conversation_history' = conversation_history]_vars
    /\ [][(pc \in {"stage1", "stage2", "stage3"})
            => conversation_history' = conversation_history]_vars

(***************************************************************************)
(* C38: every action plan delivered to the loop has its exchange recorded  *)
(* in the prior-exchange history as one user entry followed by one         *)
(* assistant entry; the history always consists of such pairs, a planner   *)
(* call that fails validation adds nothing and the grid-selection queries  *)
(* never change it.                                                        *)
(***************************************************************************)
C38_DeliveredPlanIsRecorded ==
    /\ [][(pc \in {"plan", "strict"} /\ pc' = "dispatch")
            => conversation_history' = conversation_history \o <<"user", "assistant">>]_vars
    /\ []HistoryInPairs
    /\ HistoryKeptWithoutPlan

FloorDiv27(n) == n \div 27
CeilDiv27(n) == (n + 26) \div 27

(***************************************************************************)
(* C39: with three stages of 3x3 grids on a W x H screenshot, the stage-3  *)
(* cell whose center is clicked is between floor(W/27) and ceil(W/27) wide *)
(* and between floor(H/27) and ceil(H/27) high, for every triple of valid  *)
(* cell references.                                                        *)
(***************************************************************************)
C39_Stage3CellIsOne27th ==
    pc = "click" =>
        LET b == cell_bounds[3]
            w == b[3] - b[1]
            h == b[4] - b[2]
        IN  /\ Len(cell_bounds) = 3
            /\ FloorDiv27(screenshot[1]) <= w /\ w <= CeilDiv27(screenshot[1])
            /\ FloorDiv27(screenshot[2]) <= h /\ h <= CeilDiv27(screenshot[2])

C39_Witness ==
    /\ pc = "click"
    /\ screenshot = <<1000, 800>>
    /\ cell_bounds[1] = <<666, 533, 1000, 800>>
    /\ cell_bounds[2] = <<222, 178, 334, 267>>
    /\ cell_bounds[3] = <<74, 59, 112, 89>>
    /\ click = <<981, 785>>

====
